---- MODULE Spec2Model ----
(***************************************************************************)
(* Mixed-radix positional numbers of histropy/units/radices.py.            *)
(*                                                                         *)
(* A call of the library is modelled as a request record `call` (the       *)
(* function that is called and its arguments) and the response `res` (the  *)
(* value returned or the exception raised).  Each handler of the library   *)
(* is one action that consumes the pending call and produces its response. *)
(* The registry of bases (RadixBase.name_to_base) and the module namespace *)
(* that holds the minted number types are the persistent state.            *)
(*                                                                         *)
(* Python floats are modelled as exact rationals <<numerator, denominator>>*)
(* in lowest terms: every float operation of the source is carried out     *)
(* without rounding error.  Strings are sequences of one-character         *)
(* strings.                                                                *)
(***************************************************************************)
EXTENDS Integers, Sequences, FiniteSets, TLC

VARIABLES name_to_base, module_types, call, res, heap, cache, held

vars == <<name_to_base, module_types, call, res, heap, cache, held>>

-----------------------------------------------------------------------------
(* Exact arithmetic standing for Python's float and int arithmetic.        *)

Abs(i) == IF i < 0 THEN -i ELSE i

Max(i, j) == IF i >= j THEN i ELSE j

RECURSIVE GCD(_, _)
GCD(m, n) == IF n = 0 THEN m ELSE GCD(n, m % n)

\* the rational n/d (d # 0) in lowest terms with a positive denominator
Frac(n, d) ==
  LET g == GCD(Abs(n), Abs(d))
      s == IF d < 0 THEN -1 ELSE 1
  IN  <<(s * n) \div g, (s * d) \div g>>

FInt(i) == <<i, 1>>

FZero == <<0, 1>>

FAdd(p, q) ==
  LET g == GCD(p[2], q[2])
  IN  Frac(p[1] * (q[2] \div g) + q[1] * (p[2] \div g), (p[2] \div g) * q[2])

FNeg(p) == <<-p[1], p[2]>>

FSub(p, q) == FAdd(p, FNeg(q))

FMul(p, q) ==
  LET g1 == GCD(Abs(p[1]), q[2])
      g2 == GCD(Abs(q[1]), p[2])
  IN  Frac((p[1] \div g1) * (q[1] \div g2), (p[2] \div g2) * (q[2] \div g1))

\* q # 0
FDiv(p, q) == FMul(p, IF q[1] < 0 THEN <<-q[2], -q[1]>> ELSE <<q[2], q[1]>>)

FLt(p, q) == FSub(p, q)[1] < 0

FLe(p, q) == FSub(p, q)[1] <= 0

FAbs(p) == <<Abs(p[1]), p[2]>>

\* int(x): truncation toward zero
FTrunc(p) == IF p[1] >= 0 THEN p[1] \div p[2] ELSE -((-p[1]) \div p[2])

\* int(np.sign(x))
FSign(p) == IF p[1] > 0 THEN 1 ELSE IF p[1] < 0 THEN -1 ELSE 0

-----------------------------------------------------------------------------
(* Sequences and strings.                                                  *)

Reverse(s) == [i \in 1..Len(s) |-> s[Len(s) + 1 - i]]

Zeros(n) == [i \in 1..n |-> 0]

\* s[lo:hi] of Python for 0 <= lo, with hi clipped to the length
Slice(s, lo, hi) ==
  LET h == IF hi > Len(s) THEN Len(s) ELSE hi
  IN  IF lo >= h THEN <<>> ELSE SubSeq(s, lo + 1, h)

\* LoopingList.__getitem__: the list repeats in both directions
LoopingAt(list, i) == list[(i % Len(list)) + 1]

DigitChars == <<"0", "1", "2", "3", "4", "5", "6", "7", "8", "9">>

IsDigitChar(c) == \E i \in 1..10 : DigitChars[i] = c

DigitOf(c) == (CHOOSE i \in 1..10 : DigitChars[i] = c) - 1

LowerCase == <<"a", "b", "c", "d", "e", "f", "g", "h", "i", "j", "k", "l", "m",
               "n", "o", "p", "q", "r", "s", "t", "u", "v", "w", "x", "y", "z">>

UpperCase == <<"A", "B", "C", "D", "E", "F", "G", "H", "I", "J", "K", "L", "M",
               "N", "O", "P", "Q", "R", "S", "T", "U", "V", "W", "X", "Y", "Z">>

\* str.upper and str.lower on one character
Upper(c) ==
  IF \E i \in 1..26 : LowerCase[i] = c
  THEN UpperCase[CHOOSE i \in 1..26 : LowerCase[i] = c] ELSE c

Lower(c) ==
  IF \E i \in 1..26 : UpperCase[i] = c
  THEN LowerCase[CHOOSE i \in 1..26 : UpperCase[i] = c] ELSE c

LowerStr(s) == [i \in 1..Len(s) |-> Lower(s[i])]

\* str.capitalize
Capitalize(s) == [i \in 1..Len(s) |-> IF i = 1 THEN Upper(s[i]) ELSE Lower(s[i])]

RECURSIVE Strip(_)
Strip(s) ==
  IF s = <<>> THEN s
  ELSE IF Head(s) = " " THEN Strip(Tail(s))
  ELSE IF s[Len(s)] = " " THEN Strip(SubSeq(s, 1, Len(s) - 1))
  ELSE s

\* whether the string p occurs in s at index i (1-based)
OccursAt(s, p, i) == i + Len(p) - 1 <= Len(s) /\ SubSeq(s, i, i + Len(p) - 1) = p

\* index of the first occurrence of the non-empty string p in s, or 0
Find(s, p) ==
  IF \E i \in 1..Len(s) : OccursAt(s, p, i)
  THEN CHOOSE i \in 1..Len(s) :
         OccursAt(s, p, i) /\ \A j \in 1..(i - 1) : ~OccursAt(s, p, j)
  ELSE 0

\* s.split(p): every piece
RECURSIVE Split(_, _)
Split(s, p) ==
  LET i == Find(s, p)
  IN  IF i = 0 THEN <<s>>
      ELSE <<SubSeq(s, 1, i - 1)>> \o Split(SubSeq(s, i + Len(p), Len(s)), p)

\* s.split(p, 1): at most two pieces
Split1(s, p) ==
  LET i == Find(s, p)
  IN  IF i = 0 THEN <<s>>
      ELSE <<SubSeq(s, 1, i - 1), SubSeq(s, i + Len(p), Len(s))>>

RECURSIVE Join(_)
Join(ss) == IF ss = <<>> THEN <<>> ELSE Head(ss) \o Join(Tail(ss))

\* str(i) for an int
RECURSIVE NatStr(_)
NatStr(i) == IF i < 10 THEN <<DigitChars[i + 1]>>
             ELSE NatStr(i \div 10) \o <<DigitChars[(i % 10) + 1]>>

IntStr(i) == IF i < 0 THEN <<"-">> \o NatStr(-i) ELSE NatStr(i)

RECURSIVE DigitsValue(_)
DigitsValue(s) == IF s = <<>> THEN 0
                  ELSE 10 * DigitsValue(SubSeq(s, 1, Len(s) - 1)) + DigitOf(s[Len(s)])

\* whether int(s) accepts s: optional blanks around an optional sign and digits
IsIntStr(s) ==
  LET t == Strip(s)
      u == IF t # <<>> /\ Head(t) \in {"-", "+"} THEN Tail(t) ELSE t
  IN  u # <<>> /\ \A i \in 1..Len(u) : IsDigitChar(u[i])

\* int(s) where IsIntStr(s)
ParseInt(s) ==
  LET t == Strip(s)
  IN  IF Head(t) = "-" THEN -DigitsValue(Tail(t))
      ELSE IF Head(t) = "+" THEN DigitsValue(Tail(t))
      ELSE DigitsValue(t)

-----------------------------------------------------------------------------
(* RadixBase and its registry.                                             *)

NoBase == [left |-> <<>>, right |-> <<>>, name |-> <<>>,
           integer_separators |-> <<>>, type |-> <<>>]

\* type_name = "".join(map(str.capitalize, self.name.split("_")))
TypeName(name) ==
  LET parts == Split(name, <<"_">>)
  IN  Join([i \in 1..Len(parts) |-> Capitalize(parts[i])])

DefaultSeparators(left) ==
  [i \in 1..Len(left) |-> IF left[i] # 10 THEN <<",">> ELSE <<>>]

\* RadixBase.__init__ with integer_separators given; the registry is the pair
\* of RadixBase.name_to_base and the module namespace holding the types
RadixBaseInit(reg, left, right, name, seps) ==
  LET self == [left |-> left, right |-> right, name |-> name,
               integer_separators |-> seps, type |-> TypeName(name)]
  IN  [name_to_base |->
         [k \in DOMAIN reg.name_to_base \cup {name} |->
            IF k = name THEN self ELSE reg.name_to_base[k]],
       module_types |->
         [k \in DOMAIN reg.module_types \cup {self.type} |->
            IF k = self.type THEN self ELSE reg.module_types[k]]]

EmptyRegistry == [name_to_base |-> <<>>, module_types |-> <<>>]

\* lines 1081-1088: the bases registered when the module is imported
StandardBases == <<
  [left |-> <<10>>, right |-> <<10>>, name |-> <<"d","e","c","i","m","a","l">>,
   seps |-> DefaultSeparators(<<10>>)],
  [left |-> <<60>>, right |-> <<60>>,
   name |-> <<"s","e","x","a","g","e","s","i","m","a","l">>,
   seps |-> DefaultSeparators(<<60>>)],
  [left |-> <<60>>, right |-> <<60>>,
   name |-> <<"f","l","o","a","t","i","n","g","_",
              "s","e","x","a","g","e","s","i","m","a","l">>,
   seps |-> DefaultSeparators(<<60>>)],
  [left |-> <<10, 12, 30>>, right |-> <<60>>,
   name |-> <<"h","i","s","t","o","r","i","c","a","l">>,
   seps |-> << <<>>, <<"r", " ">>, <<"s", " ">> >>],
  [left |-> <<10>>, right |-> <<100>>,
   name |-> <<"h","i","s","t","o","r","i","c","a","l","_",
              "d","e","c","i","m","a","l">>,
   seps |-> DefaultSeparators(<<10>>)],
  [left |-> <<10>>, right |-> <<60>>,
   name |-> <<"i","n","t","e","g","e","r","_","a","n","d","_",
              "s","e","x","a","g","e","s","i","m","a","l">>,
   seps |-> DefaultSeparators(<<10>>)],
  [left |-> <<10>>, right |-> <<60>>,
   name |-> <<"i","n","t","e","g","e","r"," ","a","n","d"," ",
              "s","e","x","a","g","e","s","i","m","a","l">>,
   seps |-> DefaultSeparators(<<10>>)],
  [left |-> <<10>>, right |-> <<24, 60>>,
   name |-> <<"t","e","m","p","o","r","a","l">>,
   seps |-> DefaultSeparators(<<10>>)] >>

RECURSIVE RegisterAll(_, _)
RegisterAll(reg, defs) ==
  IF defs = <<>> THEN reg
  ELSE LET d == Head(defs)
       IN  RegisterAll(RadixBaseInit(reg, d.left, d.right, d.name, d.seps), Tail(defs))

\* the registry once the module is imported
ImportedRegistry == RegisterAll(EmptyRegistry, StandardBases)

DecimalName == StandardBases[1].name

Decimal == ImportedRegistry.name_to_base[StandardBases[1].name]

Sexagesimal == ImportedRegistry.name_to_base[StandardBases[2].name]

FloatingSexagesimal == ImportedRegistry.name_to_base[StandardBases[3].name]

Historical == ImportedRegistry.name_to_base[StandardBases[4].name]

Temporal == ImportedRegistry.name_to_base[StandardBases[8].name]

\* RadixBase.__getitem__: the radix at a position
getitem(base, pos) ==
  IF pos <= 0 THEN LoopingAt(base.left, pos - 1) ELSE LoopingAt(base.right, pos - 1)

\* the product of the first n radices of a looping list
RECURSIVE RadixProduct(_, _)
RadixProduct(list, n) ==
  IF n <= 0 THEN 1 ELSE RadixProduct(list, n - 1) * LoopingAt(list, n - 1)

\* RadixBase.float_at_pos
float_at_pos(base, pos) ==
  IF pos > 0 THEN <<1, RadixProduct(base.right, pos)>>
  ELSE IF pos = 0 THEN <<1, 1>>
  ELSE <<RadixProduct(base.left, -pos), 1>>

\* ndigit_for_radix: int(ceil(log10(radix)))
RECURSIVE CeilLog10(_, _, _)
CeilLog10(radix, k, p) == IF p >= radix THEN k ELSE CeilLog10(radix, k + 1, 10 * p)

ndigit_for_radix(radix) == CeilLog10(radix, 0, 1)

-----------------------------------------------------------------------------
(* BasedReal: objects, construction, projection to a real.                 *)

\* what a call returns or raises; a value is an object of kind "value"
None == [kind |-> "none", err |-> "", base |-> NoBase, sign |-> 1,
         left |-> <<>>, right |-> <<>>, remainder |-> FZero,
         flag |-> FALSE, str |-> <<>>, int |-> 0]

Raise(e) == [None EXCEPT !.kind = "error", !.err = e]

\* the None a method returns when it ends without a return statement
PyNone == [None EXCEPT !.kind = "pynone"]

Bool(b) == [None EXCEPT !.kind = "bool", !.flag = b]

IntResult(i) == [None EXCEPT !.kind = "int", !.int = i]

Str(s) == [None EXCEPT !.kind = "str", !.str = s]

Object(base, left, right, remainder, sign) ==
  [None EXCEPT !.kind = "value", !.base = base, !.sign = sign, !.left = left,
               !.right = right, !.remainder = remainder]

IsValue(v) == v.kind = "value"

IsError(v) == v.kind = "error"

\* BasedReal.__getitem__ with the slice [:]
AllDigits(v) == v.left \o v.right

\* BasedReal.__check_range: the exception it raises, or "" (digits are ints in
\* the model, so the float test never fires)
check_range(base, sign, left, right) ==
  IF sign \notin {-1, 1} THEN "ValueError"
  ELSE IF \E i \in 0..(Len(left) - 1) :
            LET s == Reverse(left)[i + 1] IN s < 0 \/ s > getitem(base, -i)
       THEN "IllegalBaseValueError"
  ELSE IF \E i \in 0..(Len(left) - 1) :
            LET s == left[i + 1] IN s < 0 \/ s > getitem(base, i + 1)
       THEN "IllegalBaseValueError"
  ELSE ""

\* an integer part left as it was given, leading zeros included
untrimmed_integer_part(left) == left

\* BasedReal.__simplify_integer_part: the integer part without leading zeros
RECURSIVE simplify_integer_part(_)
simplify_integer_part(left) ==
  IF left # <<>> /\ Head(left) = 0 THEN simplify_integer_part(Tail(left)) ELSE left

\* BasedReal.__new__ called with two tuples
RECURSIVE new(_, _, _, _, _)
new(base, left, right, remainder, sign) ==
  LET e == check_range(base, sign, left, right)
      l == simplify_integer_part(left)
  IN  IF e # "" THEN Raise(e)
      ELSE IF l # left THEN new(base, l, right, remainder, sign)
      ELSE Object(base, IF left = <<>> THEN <<0>> ELSE left, right, remainder, sign)

\* BasedReal.__new__ called with integers only (np.all holds of no argument too)
new_ints(base, ints, remainder, sign) == new(base, ints, <<>>, remainder, sign)

\* BasedReal.__float__
RECURSIVE FloatLeft(_, _, _)
FloatLeft(v, i, factor) ==
  IF i >= Len(v.left) THEN 0
  ELSE factor * v.left[Len(v.left) - i]
       + FloatLeft(v, i + 1, factor * LoopingAt(v.base.left, i))

RECURSIVE FloatRight(_, _)
FloatRight(v, i) ==
  IF i >= Len(v.right) THEN FZero
  ELSE FAdd(FMul(float_at_pos(v.base, i + 1), FInt(v.right[i + 1])), FloatRight(v, i + 1))

float(v) ==
  LET factor == float_at_pos(v.base, Len(v.right))
      value == FAdd(FAdd(FInt(FloatLeft(v, 0, 1)), FloatRight(v, 0)),
                    FMul(factor, v.remainder))
  IN  FMul(value, FInt(v.sign))

\* BasedReal.from_float, line 578: while floa >= max_integer
RECURSIVE GrowInteger(_, _, _, _)
GrowInteger(base, floa, max_integer, pos) ==
  IF FLe(FInt(max_integer), floa)
  THEN GrowInteger(base, floa, max_integer * LoopingAt(base.left, pos), pos + 1)
  ELSE <<max_integer, pos>>

\* BasedReal.from_float, lines 587-591: the integer digits and what is left of floa
RECURSIVE IntegerDigits(_, _, _, _, _, _)
IntegerDigits(base, floa, int_factor, i, pos, left) ==
  IF i >= pos THEN <<left, floa>>
  ELSE IntegerDigits(base,
         FSub(floa, FInt(FTrunc(FDiv(floa, FInt(int_factor \div LoopingAt(base.left, i))))
                         * (int_factor \div LoopingAt(base.left, i)))),
         int_factor \div LoopingAt(base.left, i), i + 1, pos,
         Append(left, FTrunc(FDiv(floa, FInt(int_factor \div LoopingAt(base.left, i))))))

\* BasedReal.from_float, lines 594-598: the fractional digits, what is left of
\* floa, and the last factor
RECURSIVE FractionalDigits(_, _, _, _, _, _)
FractionalDigits(base, floa, factor, i, significant, right) ==
  IF i >= significant THEN <<right, floa, factor>>
  ELSE FractionalDigits(base,
         FSub(floa, FMul(FInt(FTrunc(FDiv(floa, FDiv(factor, FInt(LoopingAt(base.right, i)))))),
                         FDiv(factor, FInt(LoopingAt(base.right, i))))),
         FDiv(factor, FInt(LoopingAt(base.right, i))), i + 1, significant,
         Append(right, FTrunc(FDiv(floa, FDiv(factor, FInt(LoopingAt(base.right, i)))))))

\* lines 600-601
FromFloatResult(base, sign, left, fracs) ==
  new(base, left, fracs[1], FDiv(fracs[2], fracs[3]), sign)

\* lines 593-598
FromFloatFractional(base, significant, sign, ints) ==
  FromFloatResult(base, sign, ints[1],
                  FractionalDigits(base, ints[2], <<1, 1>>, 0, significant, <<>>))

\* lines 582-591
FromFloatInteger(base, floa, significant, sign, grown) ==
  FromFloatFractional(base, significant, sign,
                      IntegerDigits(base, floa, grown[1], 0, grown[2], <<>>))

\* int(np.sign(floa)) or 1
FloatSign(x) == IF FSign(x) = 0 THEN 1 ELSE FSign(x)

\* BasedReal.from_float
from_float(base, x, significant) ==
  FromFloatInteger(base, FAbs(x), significant, FloatSign(x),
                   GrowInteger(base, FAbs(x), 1, 0))

\* BasedReal.zero
zero(base, significant) == from_float(base, FZero, significant)

\* BasedReal.one
one(base, significant) == from_float(base, FInt(1), significant)

-----------------------------------------------------------------------------
(* BasedReal: resizing, addition, rounding.  An operator handed an error   *)
(* in place of a value returns that error: the exception propagates.       *)

\* BasedReal.resize, line 451
ResizeUp(v, rem) ==
  IF IsError(rem) THEN rem
  ELSE new(v.base, v.left, v.right \o Slice(rem.right, Len(v.right), Len(rem.right)),
           rem.remainder, v.sign)

\* BasedReal.resize, line 456
ResizeDown(v, significant, remainder) ==
  IF IsError(remainder) THEN remainder
  ELSE new(v.base, v.left, Slice(v.right, 0, significant), float(remainder), v.sign)

\* BasedReal.resize
resize(v, significant) ==
  IF IsError(v) THEN v
  ELSE IF significant = Len(v.right) THEN v
  ELSE IF significant > Len(v.right)
  THEN ResizeUp(v, from_float(v.base,
                              FMul(FInt(v.sign),
                                   FMul(float_at_pos(v.base, Len(v.right)), v.remainder)),
                              significant))
  ELSE IF significant >= 0
  THEN ResizeDown(v, significant,
                  new(v.base, <<>>, Slice(v.right, significant, Len(v.right)),
                      v.remainder, 1))
  ELSE Raise("NotImplementedError")

\* BasedReal.truncate
truncate(v, n) ==
  IF IsError(v) THEN v
  ELSE IF n > Len(v.right) THEN v
  ELSE new(v.base, v.left, Slice(v.right, 0, n), FZero, v.sign)

\* BasedReal.shift, lines 501-508
ShiftSplit(v, i, left_right, offset) ==
  new(v.base, Slice(left_right, 0, offset),
      Slice(left_right, offset, IF -i > offset THEN -i ELSE Len(left_right)),
      v.remainder, v.sign)

\* BasedReal.shift
shift(v, i) ==
  IF IsError(v) THEN v
  ELSE IF i = 0 THEN v
  ELSE ShiftSplit(v, i, Zeros(i) \o AllDigits(v) \o Zeros(-i),
                  IF i > 0 THEN Len(v.left) ELSE Len(v.left) - i)

\* BasedReal.__neg__
neg(v) ==
  IF IsError(v) THEN v
  ELSE new(v.base, v.left, v.right, v.remainder, -v.sign)

\* BasedReal.__abs__
abs(v) == IF IsError(v) THEN v ELSE IF v.sign >= 0 THEN v ELSE neg(v)

\* BasedReal.__gt__
gt(a, b) == FLt(float(b), float(a))

\* the nested function add of BasedReal.__add__, lines 818-824: array[i] is the
\* digit of position maxright - i
RECURSIVE AddLoop(_, _, _, _, _)
AddLoop(base, maxright, array, to_add, i) ==
  IF i >= Len(to_add) THEN array
  ELSE
    LET n == array[i + 1] + to_add[i + 1]
        factor == getitem(base, maxright - i)
    IN  AddLoop(base, maxright,
                IF n < 0 \/ n >= factor
                THEN [array EXCEPT ![i + 1] = n % factor,
                                   ![i + 2] = @ + (IF n > 0 THEN 1 ELSE -1)]
                ELSE [array EXCEPT ![i + 1] = n],
                to_add, i + 1)

\* the nested function add of BasedReal.__add__, lines 815-824
AddDigits(base, maxright, numbers, values) ==
  AddLoop(base, maxright, numbers,
          [k \in 1..Len(AllDigits(values)) |->
             values.sign * Reverse(AllDigits(values))[k]]
          \o Zeros(Len(numbers) - Len(AllDigits(values)) - 1),
          0)

\* lines 829-833
AddResult(base, maxleft, sign, remainder, numbers) ==
  new(base,
      Slice([k \in 1..Len(numbers) |-> Abs(Reverse(numbers)[k])], 0, maxleft + 1),
      Slice([k \in 1..Len(numbers) |-> Abs(Reverse(numbers)[k])], maxleft + 1, Len(numbers)),
      remainder, sign)

\* lines 812-827
AddRemainder(base, maxleft, maxright, va, vb, sign, remainder) ==
  AddResult(base, maxleft, sign, FSub(remainder, FInt(FTrunc(remainder))),
            AddDigits(base, maxright,
                      AddDigits(base, maxright,
                                <<FTrunc(remainder)>>
                                \o Zeros(Max(Len(AllDigits(va)), Len(AllDigits(vb)))),
                                va),
                      vb))

\* line 810
AddOperands(base, maxleft, maxright, va, vb, sign) ==
  AddRemainder(base, maxleft, maxright, va, vb, sign,
               FAdd(FMul(va.remainder, FInt(va.sign)), FMul(vb.remainder, FInt(vb.sign))))

\* lines 806-808
AddSigned(base, maxleft, maxright, va, vb, sign) ==
  AddOperands(base, maxleft, maxright,
              IF sign < 0 THEN neg(va) ELSE va, IF sign < 0 THEN neg(vb) ELSE vb, sign)

\* line 805
AddResized(base, maxleft, maxright, va, vb) ==
  IF IsError(va) THEN va
  ELSE IF IsError(vb) THEN vb
  ELSE AddSigned(base, maxleft, maxright, va, vb,
                 IF gt(abs(va), abs(vb)) THEN va.sign ELSE vb.sign)

\* BasedReal.__add__ for two values of one type, lines 800-833
AddSameType(self, other) ==
  IF IsError(self) THEN self
  ELSE IF IsError(other) THEN other
  ELSE AddResized(self.base, Max(Len(self.left), Len(other.left)),
                  Max(Len(self.right), Len(other.right)),
                  resize(self, Max(Len(self.right), Len(other.right))),
                  resize(other, Max(Len(self.right), Len(other.right))))

\* BasedReal.__add__ with a Python float as the other operand, line 798
add_float(self, x) ==
  IF IsError(self) THEN self
  ELSE AddSameType(self, from_float(self.base, x, Len(self.right)))

\* BasedReal.__add__
add(self, other) ==
  IF IsError(self) THEN self
  ELSE IF IsError(other) THEN other
  ELSE IF self.base # other.base THEN add_float(self, float(other))
  ELSE AddSameType(self, other)

\* BasedReal.__sub__
sub(self, other) == add(self, neg(other))

\* BasedReal.__round__, lines 528-530
RoundResized(self, significant, n) ==
  IF IsError(n) THEN n
  ELSE IF FLe(<<1, 2>>, n.remainder)
  THEN truncate(add(n, shift(new_ints(self.base, <<1>>, FZero, self.sign), significant)),
                significant)
  ELSE truncate(n, significant)

\* BasedReal.__round__ with significant given
round(self, significant) == RoundResized(self, significant, resize(self, significant))

-----------------------------------------------------------------------------
(* BasedReal: multiplication, division, comparison.                        *)

\* lines 939-945: one row of the product added into count, carrying with the
\* radix base[max_right - i]
RECURSIVE MulRow(_, _, _, _, _)
MulRow(base, max_right, count, row, i) ==
  IF i >= Len(row) THEN count
  ELSE
    LET n == count[i + 1] + row[i + 1]
        factor == getitem(base, max_right - i)
    IN  MulRow(base, max_right,
               IF n < 0 \/ n >= factor
               THEN [count EXCEPT ![i + 1] = n % factor, ![i + 2] = @ + (n \div factor)]
               ELSE [count EXCEPT ![i + 1] = n],
               row, i + 1)

\* line 938
RECURSIVE MulRows(_, _, _, _)
MulRows(base, max_right, count, numbers) ==
  IF numbers = <<>> THEN count
  ELSE MulRows(base, max_right, MulRow(base, max_right, count, Head(numbers), 0),
               Tail(numbers))

\* lines 947-951: the carry out of the last position
RECURSIVE MulTop(_, _, _)
MulTop(base, max_right, count) ==
  IF count[Len(count)] # 0
  THEN MulTop(base, max_right,
              Append([count EXCEPT ![Len(count)] =
                        @ % getitem(base, max_right - Len(count))],
                     count[Len(count)] \div getitem(base, max_right - Len(count))))
  ELSE count

\* lines 933-934: the rows of the product, least significant digit first
MulNumbers(da, db) ==
  [i \in 1..Len(da) |-> Zeros(i - 1) \o Reverse([k \in 1..Len(db) |-> da[i] * db[k]])]

\* lines 956-958: the correction for the remainders of the operands
MulCorrection(base, max_right, va, vb) ==
  FAdd(FAdd(FMul(float(va), FMul(float_at_pos(base, max_right), vb.remainder)),
            FMul(float(vb), FMul(float_at_pos(base, max_right), va.remainder))),
       FMul(FMul(float_at_pos(base, max_right), va.remainder),
            FMul(float_at_pos(base, max_right), vb.remainder)))

\* lines 960-963
MulSigned(sign, r) == IF sign < 0 THEN neg(r) ELSE r

\* lines 933-963
MulResized(base, sign, max_right, va, vb) ==
  IF IsError(va) THEN va
  ELSE IF IsError(vb) THEN vb
  ELSE MulSigned(sign,
         add_float(shift(new_ints(base,
                                  Reverse(MulTop(base, max_right,
                                            MulRows(base, max_right,
                                                    Zeros(Len(AllDigits(va))
                                                          + Len(AllDigits(vb))),
                                                    MulNumbers(Reverse(AllDigits(va)),
                                                               AllDigits(vb))))),
                                  FZero, 1),
                         2 * max_right),
                   MulCorrection(base, max_right, va, vb)))

\* BasedReal.__mul__ for two values of one type, lines 926-963
MulSameType(self, other) ==
  MulResized(self.base, self.sign * other.sign,
             Max(Len(self.right), Len(other.right)),
             resize(self, Max(Len(self.right), Len(other.right))),
             resize(other, Max(Len(self.right), Len(other.right))))

\* BasedReal.__mul__.  Between two types line 924 hands `other` itself to
\* from_float, whose float divisions of a BasedReal by a number reach
\* __truediv__ and fail on the missing attribute `right` of the number.
mul(self, other) ==
  IF self.base # other.base THEN Raise("AttributeError")
  ELSE MulSameType(self, other)

\* BasedReal.__pow__, lines 858-860: res = self; res *= self, exponent - 1 times
RECURSIVE PowLoop(_, _, _)
PowLoop(res_, self, k) ==
  IF IsError(res_) \/ k <= 0 THEN res_
  ELSE PowLoop(mul(res_, self), self, k - 1)

\* BasedReal.__pow__, lines 858-865: the branch ends without a return
PowEnd(res_) == IF IsError(res_) THEN res_ ELSE PyNone

\* BasedReal.__pow__.  A negative exponent divides the int 1 by self, which
\* reaches __rtruediv__
pow(self, exponent) ==
  IF exponent = 0 THEN one(self.base, 0)
  ELSE IF exponent > 0 THEN PowEnd(PowLoop(self, self, exponent - 1))
  ELSE Raise("NotImplementedError")

\* BasedReal.euclidian_div
euclidian_div(self, other) == Raise("NotImplementedError")

\* BasedReal.division: after the type test, line 764 assigns to the read-only
\* property `sign` of the copy
division(self, other, significant) ==
  IF self.base # other.base THEN Raise("TypeMismatch")
  ELSE Raise("AttributeError")

\* BasedReal.__eq__
eq(self, other) ==
  IF self.base # other.base \/ Len(self.right) # Len(other.right)
  THEN float(self) = float(other)
  ELSE /\ self.sign = other.sign
       /\ self.right = other.right
       /\ self.left = other.left
       /\ self.remainder = other.remainder

\* BasedReal.__ge__
ge(self, other) == eq(self, other) \/ gt(self, other)

\* BasedReal.__lt__
lt(self, other) == ~ge(self, other)

\* BasedReal.__le__
le(self, other) == ~gt(self, other)

-----------------------------------------------------------------------------
(* BasedReal: rendering and parsing.                                       *)

\* "0" * (digit - len(num)) + num
Pad(num, digit) == [k \in 1..(digit - Len(num)) |-> "0"] \o num

RECURSIVE JoinWith(_, _)
JoinWith(ss, sep) ==
  IF ss = <<>> THEN <<>>
  ELSE IF Len(ss) = 1 THEN Head(ss)
  ELSE Head(ss) \o sep \o JoinWith(Tail(ss), sep)

\* BasedReal.__repr__, lines 335-340
ReprLeft(nv) ==
  Join([i \in 1..Len(nv.left) |->
          (IF i > 1 THEN LoopingAt(nv.base.integer_separators, i - 1) ELSE <<>>)
          \o Pad(IntStr(nv.left[i]), ndigit_for_radix(LoopingAt(nv.base.left, i - 1)))])

\* BasedReal.__repr__, lines 344-350
ReprRight(nv) ==
  JoinWith([i \in 1..Len(nv.right) |->
              Pad(IntStr(nv.right[i]), ndigit_for_radix(LoopingAt(nv.base.right, i - 1)))],
           <<",">>)

\* BasedReal.__repr__, lines 329-352
ReprRounded(nv) ==
  IF IsError(nv) THEN nv
  ELSE IF nv.base.name = DecimalName
  THEN Str(Join([i \in 1..Len(nv.left) |-> IntStr(nv.left[i])]) \o <<".">>
           \o Join([i \in 1..Len(nv.right) |-> IntStr(nv.right[i])]))
  ELSE Str((IF nv.sign < 0 THEN <<"-">> ELSE <<>>) \o ReprLeft(nv)
           \o <<" ", ";", " ">> \o ReprRight(nv))

\* BasedReal.__repr__
repr(self) == ReprRounded(round(self, Len(self.right)))

\* float(string) for [-]digits[.digits]; <<>> stands for ValueError
ParseFloatParts(negative, parts) ==
  IF Len(parts) > 2 \/ Join(parts) = <<>>
     \/ \E i \in 1..Len(Join(parts)) : ~IsDigitChar(Join(parts)[i])
  THEN <<>>
  ELSE Frac((IF negative THEN -1 ELSE 1) * DigitsValue(Join(parts)),
            RadixProduct(<<10>>, IF Len(parts) = 2 THEN Len(parts[2]) ELSE 0))

ParseFloatStripped(t) ==
  ParseFloatParts(t # <<>> /\ Head(t) = "-",
                  Split(IF t # <<>> /\ Head(t) = "-" THEN Tail(t) ELSE t, <<".">>))

ParseFloat(string) == ParseFloatStripped(Strip(string))

\* line 420: the last digit, read from what is left of the integer part
ParseLast(rleft, left_numbers) ==
  IF IsIntStr(Reverse(rleft))
  THEN [err |-> "", numbers |-> <<ParseInt(Reverse(rleft))>> \o left_numbers]
  ELSE [err |-> "ValueError", numbers |-> <<>>]

\* lines 405-420 of from_string: the integer part read from right to left;
\* err is the exception raised, if any
RECURSIVE ParseLeft(_, _, _, _, _)

\* lines 416-419: one digit read, the rest of the string is rem
ParseDigit(base, n, i, value, rem, left_numbers) ==
  IF ~IsIntStr(Reverse(value))
  THEN [err |-> "ValueError", numbers |-> <<>>]
  ELSE ParseLeft(base, n, IF Len(Strip(rem)) = 1 THEN n ELSE i + 1, Strip(rem),
                 <<ParseInt(Reverse(value))>> \o left_numbers)

\* lines 406-415: the separator of the position decides how the digit is cut
ParseSeparated(base, n, i, rleft, left_numbers, separator) ==
  IF separator # <<>>
  THEN IF Len(Split1(rleft, separator)) = 1 THEN ParseLast(rleft, left_numbers)
       ELSE ParseDigit(base, n, i, Split1(rleft, separator)[1],
                       Split1(rleft, separator)[2], left_numbers)
  ELSE IF rleft = <<>> THEN [err |-> "IndexError", numbers |-> <<>>]
  ELSE ParseDigit(base, n, i, <<rleft[1]>>, Tail(rleft), left_numbers)

ParseLeft(base, n, i, rleft, left_numbers) ==
  IF i >= n THEN ParseLast(rleft, left_numbers)
  ELSE ParseSeparated(base, n, i, rleft, left_numbers,
                      LowerStr(Strip(LoopingAt(base.integer_separators, -i - 1))))

\* lines 400-401
ParseRight(right) ==
  IF Len(right) = 0 THEN [err |-> "", numbers |-> <<>>]
  ELSE IF \E k \in 1..Len(Split(right, <<",">>)) : ~IsIntStr(Split(right, <<",">>)[k])
  THEN [err |-> "ValueError", numbers |-> <<>>]
  ELSE [err |-> "",
        numbers |-> [k \in 1..Len(Split(right, <<",">>)) |->
                       ParseInt(Split(right, <<",">>)[k])]]

\* lines 397-422
FromStringParts(base, sign, left, right_numbers, left_numbers) ==
  IF right_numbers.err # "" THEN Raise(right_numbers.err)
  ELSE IF left_numbers.err # "" THEN Raise(left_numbers.err)
  ELSE new(base, left_numbers.numbers, right_numbers.numbers, FZero, sign)

\* lines 385-395
FromStringSplit(base, sign, left_right) ==
  IF Len(left_right) > 2 THEN Raise("TooManySeparators")
  ELSE FromStringParts(base, sign, Strip(left_right[1]),
         ParseRight(IF Len(left_right) < 2 THEN <<>> ELSE Strip(left_right[2])),
         IF Len(Strip(left_right[1])) > 0
         THEN ParseLeft(base, Len(Strip(left_right[1])), 0,
                        Reverse(Strip(left_right[1])), <<>>)
         ELSE [err |-> "", numbers |-> <<>>])

\* lines 377-384
FromStringStripped(base, string) ==
  IF Len(string) = 0 THEN Raise("EmptyStringException")
  ELSE IF Head(string) = "-" THEN FromStringSplit(base, -1, Split(Tail(string), <<";">>))
  ELSE FromStringSplit(base, 1, Split(string, <<";">>))

\* BasedReal.from_string
from_string(base, string) ==
  IF base.name = DecimalName
  THEN IF ParseFloat(string) = <<>> THEN Raise("ValueError")
       ELSE from_float(base, ParseFloat(string), Len(string))
  ELSE FromStringStripped(base, LowerStr(Strip(string)))

-----------------------------------------------------------------------------
(* BasedReal objects: identity, the cache of __new__, copies.  heap[id] is  *)
(* the object of identity id, cache the memo of @cached __new__, a set of   *)
(* entries [key, id].                                                      *)

\* the keyword arguments of a call of __new__: those that were passed (names)
\* and the value of each, the default when it was not passed
NoKw == [names |-> {}, remainder |-> FZero, sign |-> 1]

KwSign(sign) == [names |-> {"sign"}, remainder |-> FZero, sign |-> sign]

KwBoth(remainder, sign) ==
  [names |-> {"remainder", "sign"}, remainder |-> remainder, sign |-> sign]

\* the key of a call of __new__ in the memo: the class and the arguments as
\* they were passed, bare integers (shape "ints", the integers in left) or a
\* pair of tuples (shape "tuples")
Key(base, shape, left, right, kw) ==
  [base |-> base, shape |-> shape, left |-> left, right |-> right, kw |-> kw]

IsCached(memo, key) == \E e \in memo : e.key = key

Lookup(memo, key) == (CHOOSE e \in memo : e.key = key).id

\* what a call of __new__ leaves: the heap, the memo, the object returned (id)
\* or the exception raised (err)
Outcome(h, memo, id, err) == [heap |-> h, cache |-> memo, id |-> id, err |-> err]

\* @cached: a call that returned is filed under its key
Remember(key, r) ==
  IF r.err # "" THEN r
  ELSE [r EXCEPT !.cache = @ \cup {[key |-> key, id |-> r.id]}]

RECURSIVE cached_new(_, _, _)

\* BasedReal.__new__, lines 237-268, for a pair of tuples
new_tuples(h, memo, key) ==
  IF check_range(key.base, key.kw.sign, key.left, key.right) # ""
  THEN Outcome(h, memo, 0, check_range(key.base, key.kw.sign, key.left, key.right))
  ELSE IF simplify_integer_part(key.left) # key.left
  THEN cached_new(h, memo,
                  Key(key.base, "tuples", simplify_integer_part(key.left), key.right,
                      KwBoth(key.kw.remainder, key.kw.sign)))
  ELSE Outcome(Append(h, Object(key.base,
                                IF key.left = <<>> THEN <<0>> ELSE key.left,
                                key.right, key.kw.remainder, key.kw.sign)),
               memo, Len(h) + 1, "")

\* BasedReal.__new__, lines 235-236, for bare integers
new_body(h, memo, key) ==
  IF key.shape = "ints"
  THEN cached_new(h, memo,
                  Key(key.base, "tuples", key.left, <<>>,
                      KwBoth(key.kw.remainder, key.kw.sign)))
  ELSE new_tuples(h, memo, key)

\* @cached BasedReal.__new__
cached_new(h, memo, key) ==
  IF IsCached(memo, key) THEN Outcome(h, memo, Lookup(memo, key), "")
  ELSE Remember(key, new_body(h, memo, key))

\* copy.deepcopy(self): the copy is made by cls.__new__(cls) and then given
\* the slots of self
DeepCopyInto(r, v) == [r EXCEPT !.heap = [@ EXCEPT ![r.id] = v]]

deepcopy(h, memo, id) ==
  DeepCopyInto(cached_new(h, memo, Key(h[id].base, "ints", <<>>, <<>>, NoKw)), h[id])

\* BasedReal.division, lines 754-764: both operands are copied, then the
\* assignment to the property `sign` raises
DivisionCopies(first, other) ==
  [deepcopy(first.heap, first.cache, other) EXCEPT !.id = 0, !.err = "AttributeError"]

division_objects(h, memo, self, other) ==
  IF h[self].base # h[other].base THEN Outcome(h, memo, 0, "TypeMismatch")
  ELSE DivisionCopies(deepcopy(h, memo, self), other)

\* BasedReal.__neg__ of the object self
neg_object(h, memo, self) ==
  cached_new(h, memo, Key(h[self].base, "tuples", h[self].left, h[self].right,
                          KwBoth(h[self].remainder, -h[self].sign)))

\* BasedReal.__abs__ of the object self
abs_object(h, memo, self) ==
  IF h[self].sign >= 0 THEN Outcome(h, memo, self, "") ELSE neg_object(h, memo, self)

\* BasedReal.truncate of the object self
truncate_object(h, memo, self, n) ==
  IF n > Len(h[self].right) THEN Outcome(h, memo, self, "")
  ELSE cached_new(h, memo, Key(h[self].base, "tuples", h[self].left,
                               Slice(h[self].right, 0, n), KwSign(h[self].sign)))

-----------------------------------------------------------------------------
(* The calls that are checked: bounded argument sets.                      *)

\* most integer digits and most fractional digits of a value handed to a call
MaxLeft == 2

MaxRight == 2

\* most fractional digits of the operands of a binary operation
MaxOperandRight == 1

\* largest integer handed to from_float
MaxInteger == 130

\* the largest exponent of a power
MaxExponent == 2

\* the positions whose radix is asked for lie in -MaxPosition..MaxPosition
MaxPosition == 3

\* the digits tried at a position of radix r
DigitSamples(r) == {0, 1, r \div 3, r - 1}

\* the digits tried for the operands of a binary operation
OperandSamples(r) == {0, 1, r - 1}

\* digits a constructor call may be handed, in and out of range
RawSamples(r) == {-1, 0, 1, r - 1, r, r + 1}

\* the remainders tried
RemainderSamples == {<<0, 1>>, <<1, 4>>, <<1, 2>>, <<3, 4>>}

SampleOf(kind, r) ==
  IF kind = "raw" THEN RawSamples(r)
  ELSE IF kind = "operand" THEN OperandSamples(r)
  ELSE DigitSamples(r)

RECURSIVE LeftTuples(_, _, _)
LeftTuples(base, kind, m) ==
  IF m = 0 THEN {<<>>}
  ELSE {<<d>> \o t : d \in SampleOf(kind, getitem(base, -(m - 1))),
                     t \in LeftTuples(base, kind, m - 1)}

RECURSIVE RightTuples(_, _, _)
RightTuples(base, kind, m) ==
  IF m = 0 THEN {<<>>}
  ELSE {Append(t, d) : t \in RightTuples(base, kind, m - 1),
                       d \in SampleOf(kind, getitem(base, m))}

\* the values built by the constructor from digits in range
ValuesOf(base, kind, maxleft, maxright, remainders) ==
  {v \in {new(base, l, r, rem, s) :
            l \in UNION {LeftTuples(base, kind, m) : m \in 1..maxleft},
            r \in UNION {RightTuples(base, kind, m) : m \in 0..maxright},
            rem \in remainders, s \in {-1, 1}} : IsValue(v)}

ValueBases == {Decimal, Sexagesimal, Historical, Temporal}

MixedBases == {Sexagesimal, Historical, Temporal}

Values == UNION {ValuesOf(base, "digit", MaxLeft, MaxRight, {FZero}) : base \in ValueBases}

ValuesWithRemainder ==
  UNION {ValuesOf(base, "digit", 1, MaxRight, RemainderSamples) : base \in MixedBases}

Operands(base) == ValuesOf(base, "operand", MaxLeft, MaxOperandRight, {FZero})

SmallOperands(base) == ValuesOf(base, "operand", 1, MaxOperandRight, {FZero})

\* pairs of operands of one type
OperandPairs == UNION {Operands(base) \X Operands(base) : base \in MixedBases}

SmallPairs == UNION {SmallOperands(base) \X SmallOperands(base) : base \in ValueBases}

\* pairs of one-digit operands of one type that carry a remainder
RemainderPairs ==
  UNION {ValuesOf(base, "operand", 1, 0, RemainderSamples)
         \X ValuesOf(base, "operand", 1, 0, RemainderSamples) :
           base \in {Sexagesimal, Temporal}}

\* pairs of operands of two types
CrossPairs ==
  ValuesOf(Sexagesimal, "operand", 1, 0, {FZero})
  \X (ValuesOf(Historical, "operand", 1, 0, {FZero})
      \cup ValuesOf(FloatingSexagesimal, "operand", 1, 0, {FZero}))

NoCall == [f |-> "", base |-> NoBase, a |-> None, b |-> None, n |-> 0, x |-> FZero,
           left |-> <<>>, right |-> <<>>, sign |-> 1, remainder |-> FZero,
           name |-> <<>>, string |-> <<>>]

UnaryCall(f, v) == [NoCall EXCEPT !.f = f, !.a = v]

SizedCall(f, v, n) == [NoCall EXCEPT !.f = f, !.a = v, !.n = n]

BinaryCall(f, p) == [NoCall EXCEPT !.f = f, !.a = p[1], !.b = p[2]]

NewCallsOf(base) ==
  {[NoCall EXCEPT !.f = "new", !.base = base, !.left = l, !.right = r, !.sign = s] :
     l \in UNION {LeftTuples(base, "raw", m) : m \in 0..MaxLeft},
     r \in UNION {RightTuples(base, "raw", m) : m \in 0..1},
     s \in {-1, 1}}

NewCalls == UNION {NewCallsOf(base) : base \in {Sexagesimal, Historical, Temporal}}

\* the constructor called with bare integers, none included
NewIntsCallsOf(base) ==
  {[NoCall EXCEPT !.f = "new_ints", !.base = base, !.left = l, !.sign = s] :
     l \in UNION {LeftTuples(base, "raw", m) : m \in 0..MaxLeft},
     s \in {-1, 1}}

NewIntsCalls == UNION {NewIntsCallsOf(base) : base \in ValueBases}

\* the canonical rendering of every value without remainder
FromStringCalls ==
  {[NoCall EXCEPT !.f = "from_string", !.base = v.base, !.a = v, !.string = repr(v).str] :
     v \in Values}

\* the real value of every value, and the integers
FromFloatCalls ==
  {[NoCall EXCEPT !.f = "from_float", !.base = v.base, !.a = v, !.x = float(v),
                  !.n = Len(v.right)] : v \in Values}
  \cup {[NoCall EXCEPT !.f = "from_float", !.base = base, !.x = FInt(x)] :
          base \in ValueBases, x \in 0..MaxInteger}

RegisterCalls ==
  {[NoCall EXCEPT !.f = "register", !.left = l, !.right = r, !.name = n] :
     l \in {<<60>>, <<1>>, <<0>>, <<10, 1>>, <<10, 12>>},
     r \in {<<60>>, <<1>>, <<2>>, <<24, 0>>, <<24, 60>>},
     n \in {<<"s","e","x","a","g","e","s","i","m","a","l">>,
            <<"l","u","n","a","r","_","d","a","y">>}}

Sizes == 0..(MaxRight + 1)

Shifts == (-1)..2

-----------------------------------------------------------------------------
(* The state machine: a pending call and the handler that answers it.      *)

\* the call that is pending once the module is imported
InitialCall ==
  \/ call \in NewCalls
  \/ call \in NewIntsCalls
  \/ call \in FromStringCalls
  \/ call \in FromFloatCalls
  \/ call \in RegisterCalls
  \/ \E v \in Values, f \in {"repr", "neg", "abs"} : call = UnaryCall(f, v)
  \/ \E v \in Values, n \in Shifts : call = SizedCall("shift", v, n)
  \/ \E v \in ValuesWithRemainder, n \in Sizes, f \in {"resize", "truncate", "round"} :
       call = SizedCall(f, v, n)
  \/ \E p \in OperandPairs \cup CrossPairs, f \in {"add", "sub", "mul"} :
       call = BinaryCall(f, p)
  \/ \E p \in RemainderPairs, f \in {"add", "sub"} : call = BinaryCall(f, p)
  \/ \E p \in SmallPairs \cup CrossPairs, f \in {"gt", "ge", "lt", "le", "eq"} :
       call = BinaryCall(f, p)
  \/ \E p \in SmallPairs \cup CrossPairs, n \in 0..1 :
       call = [BinaryCall("division", p) EXCEPT !.n = n]
  \/ \E base \in ValueBases, n \in (-1)..MaxExponent :
       \E v \in Operands(base) : call = SizedCall("pow", v, n)
  \/ \E name \in DOMAIN ImportedRegistry.name_to_base, n \in (-MaxPosition)..MaxPosition :
       call = [NoCall EXCEPT !.f = "getitem", !.n = n,
                             !.base = ImportedRegistry.name_to_base[name]]

Init ==
  /\ name_to_base = ImportedRegistry.name_to_base
  /\ module_types = ImportedRegistry.module_types
  /\ InitialCall
  /\ res = None
  /\ heap = <<>>
  /\ cache = {}
  /\ held = <<>>

Pending(f) == call.f = f /\ res.kind = "none"

Answer(r) ==
  res' = r /\ UNCHANGED <<name_to_base, module_types, call, heap, cache, held>>

\* RadixBase(left, right, name)
Register ==
  /\ Pending("register")
  /\ LET reg == RadixBaseInit([name_to_base |-> name_to_base,
                               module_types |-> module_types],
                              call.left, call.right, call.name,
                              DefaultSeparators(call.left))
     IN  /\ name_to_base' = reg.name_to_base
         /\ module_types' = reg.module_types
         /\ res' = [None EXCEPT !.kind = "base", !.base = reg.name_to_base[call.name]]
  /\ UNCHANGED <<call, heap, cache, held>>

New == Pending("new") /\ Answer(new(call.base, call.left, call.right, call.remainder, call.sign))

NewInts == Pending("new_ints") /\ Answer(new_ints(call.base, call.left, call.remainder, call.sign))

FromString == Pending("from_string") /\ Answer(from_string(call.base, call.string))

FromFloat == Pending("from_float") /\ Answer(from_float(call.base, call.x, call.n))

Repr == Pending("repr") /\ Answer(repr(call.a))

Neg == Pending("neg") /\ Answer(neg(call.a))

AbsValue == Pending("abs") /\ Answer(abs(call.a))

Resize == Pending("resize") /\ Answer(resize(call.a, call.n))

Truncate == Pending("truncate") /\ Answer(truncate(call.a, call.n))

Round == Pending("round") /\ Answer(round(call.a, call.n))

Shift == Pending("shift") /\ Answer(shift(call.a, call.n))

Add == Pending("add") /\ Answer(add(call.a, call.b))

Sub == Pending("sub") /\ Answer(sub(call.a, call.b))

Mul == Pending("mul") /\ Answer(mul(call.a, call.b))

Division == Pending("division") /\ Answer(division(call.a, call.b, call.n))

Gt == Pending("gt") /\ Answer(Bool(gt(call.a, call.b)))

Ge == Pending("ge") /\ Answer(Bool(ge(call.a, call.b)))

Lt == Pending("lt") /\ Answer(Bool(lt(call.a, call.b)))

Le == Pending("le") /\ Answer(Bool(le(call.a, call.b)))

Eq == Pending("eq") /\ Answer(Bool(eq(call.a, call.b)))

Pow == Pending("pow") /\ Answer(pow(call.a, call.n))

\* base[pos]
GetItem == Pending("getitem") /\ Answer(IntResult(getitem(call.base, call.n)))

Next ==
  \/ Register
  \/ New
  \/ NewInts
  \/ FromString
  \/ FromFloat
  \/ Repr
  \/ Neg
  \/ AbsValue
  \/ Resize
  \/ Truncate
  \/ Round
  \/ Shift
  \/ Add
  \/ Sub
  \/ Mul
  \/ Division
  \/ Gt
  \/ Ge
  \/ Lt
  \/ Le
  \/ Eq
  \/ Pow
  \/ GetItem

Spec == Init /\ [][Next]_vars

Returned == res.kind # "none"

-----------------------------------------------------------------------------
(* The state machine of objects: a caller builds values and operates on    *)
(* the objects it holds.  held lists, for every object a call returned,    *)
(* its identity, the call that returned it and the value it had then.      *)

\* the number of objects a caller holds
MaxCalls == 2

ObjectLefts == {<<>>, <<0>>, <<6>>, <<0, 6>>}

ObjectRights == {<<>>, <<30>>}

ObjectKws == {NoKw, KwSign(1), KwSign(-1), KwBoth(FZero, 1)}

\* the constructor calls a caller makes, as keys of the memo
ObjectKeys ==
  {Key(Sexagesimal, "ints", l, <<>>, kw) : l \in ObjectLefts, kw \in ObjectKws}
  \cup {Key(Sexagesimal, "tuples", l, r, kw) :
          l \in ObjectLefts, r \in ObjectRights, kw \in ObjectKws}

ObjectInit ==
  /\ name_to_base = ImportedRegistry.name_to_base
  /\ module_types = ImportedRegistry.module_types
  /\ call = [NoCall EXCEPT !.f = "objects"]
  /\ res = None
  /\ heap = <<>>
  /\ cache = {}
  /\ held = <<>>

\* the call named by returned r: the caller holds the object, or sees the
\* exception
Hold(by, r) ==
  /\ heap' = r.heap
  /\ cache' = r.cache
  /\ held' = IF r.err = "" THEN Append(held, [id |-> r.id, by |-> by,
                                               value |-> r.heap[r.id]])
             ELSE held
  /\ res' = IF r.err = "" THEN r.heap[r.id] ELSE Raise(r.err)
  /\ UNCHANGED <<name_to_base, module_types, call>>

CanHold == call.f = "objects" /\ Len(held) < MaxCalls

NewObject ==
  /\ CanHold
  /\ \E key \in ObjectKeys : Hold("new", cached_new(heap, cache, key))

NegObject ==
  /\ CanHold
  /\ \E i \in 1..Len(held) : Hold("neg", neg_object(heap, cache, held[i].id))

AbsObject ==
  /\ CanHold
  /\ \E i \in 1..Len(held) : Hold("abs", abs_object(heap, cache, held[i].id))

TruncateObject ==
  /\ CanHold
  /\ \E i \in 1..Len(held), n \in 0..1 :
       Hold("truncate", truncate_object(heap, cache, held[i].id, n))

DivisionObjects ==
  /\ call.f = "objects"
  /\ \E i, j \in 1..Len(held) :
       Hold("division", division_objects(heap, cache, held[i].id, held[j].id))

ObjectNext ==
  \/ NewObject
  \/ NegObject
  \/ AbsObject
  \/ TruncateObject
  \/ DivisionObjects

ObjectSpec == ObjectInit /\ [][ObjectNext]_vars

-----------------------------------------------------------------------------
(* The properties stated of the program.                                   *)

\* every digit d of v satisfies 0 <= d < base[position of d]
DigitsInRange(v) ==
  /\ \A i \in 1..Len(v.left) :
       v.left[i] >= 0 /\ v.left[i] < getitem(v.base, -(Len(v.left) - i))
  /\ \A i \in 1..Len(v.right) :
       v.right[i] >= 0 /\ v.right[i] < getitem(v.base, i)

\* the same of the digit tuples handed to the constructor
TuplesInRange(base, left, right) ==
  DigitsInRange(Object(base, left, right, FZero, 1))

SameBase == call.a.base = call.b.base

NoRemainder == call.a.remainder = FZero /\ call.b.remainder = FZero

\* x cut at the fractional position n of base
CutAt(base, x, n) ==
  FMul(FInt(FTrunc(FDiv(x, float_at_pos(base, n)))), float_at_pos(base, n))

\* x rounded half away from zero at the fractional position n, for x >= 0
RoundedAt(base, x, n) ==
  IF FLe(FDiv(float_at_pos(base, n), FInt(2)), FSub(x, CutAt(base, x, n)))
  THEN FAdd(CutAt(base, x, n), float_at_pos(base, n))
  ELSE CutAt(base, x, n)

\* C1: every value returned by the constructor, from_string, from_float,
\* resize, shift, round, addition or multiplication has all its digits within
\* the radix of their position, and the constructor rejects a digit tuple
\* with a digit out of range with IllegalBaseValueError.
C1_DigitsWithinRadix ==
  /\ (call.f \in {"new", "from_string", "from_float", "resize", "shift", "round",
                  "add", "mul"} /\ IsValue(res))
       => DigitsInRange(res)
  /\ (call.f = "new" /\ Returned /\ ~TuplesInRange(call.base, call.left, call.right))
       => res = Raise("IllegalBaseValueError")

\* C1: the constructor answers Sexagesimal((60,), ()) with a value whose digit
\* equals the radix of its position
C1_DigitEqualToRadixAccepted ==
  /\ call.f = "new" /\ call.base = Sexagesimal
  /\ call.left = <<60>> /\ call.right = <<>> /\ call.sign = 1
  /\ IsValue(res) /\ res.left = <<60>>

\* C2: the sum of two values of one base without remainder is a value with
\* the larger of the two numbers of fractional digits whose real value is the
\* sum of the real values.
C2_AdditionExact ==
  (call.f = "add" /\ Returned /\ SameBase /\ NoRemainder)
    => /\ IsValue(res)
       /\ Len(res.right) = Max(Len(call.a.right), Len(call.b.right))
       /\ float(res) = FAdd(float(call.a), float(call.b))

\* C2: Historical(29) + Historical(1) is the value 1r 00, whose real value is 10
C2_HistoricalCarry ==
  /\ call.f = "add"
  /\ call.a = new_ints(Historical, <<29>>, FZero, 1)
  /\ call.b = new_ints(Historical, <<1>>, FZero, 1)
  /\ IsValue(res) /\ res.left = <<1, 0>> /\ float(res) = FInt(10)

\* C3: the product of two values of one base without remainder is a value
\* with the product of the signs whose real value is the product of the real
\* values.
C3_MultiplicationExact ==
  (call.f = "mul" /\ Returned /\ SameBase /\ NoRemainder)
    => /\ IsValue(res)
       /\ res.sign = call.a.sign * call.b.sign
       /\ float(res) = FMul(float(call.a), float(call.b))

\* C3: Historical(1, 0) * Historical(1, 0) has the real value 120, not 100
C3_HistoricalProduct ==
  /\ call.f = "mul"
  /\ call.a = new_ints(Historical, <<1, 0>>, FZero, 1)
  /\ call.b = call.a
  /\ IsValue(res) /\ float(call.a) = FInt(10) /\ float(res) = FInt(120)

\* C4: division of a by a non-zero b of the same base to s fractional digits
\* returns a value q with s fractional digits and the product of the signs
\* such that |q*b - a| is below the weight of position s.
C4_DivisionInverse ==
  (call.f = "division" /\ Returned /\ SameBase /\ float(call.b) # FZero)
    => /\ IsValue(res)
       /\ Len(res.right) = call.n
       /\ res.sign = call.a.sign * call.b.sign
       /\ FLt(FAbs(FSub(FMul(float(res), float(call.b)), float(call.a))),
              float_at_pos(call.a.base, call.n))

\* C4: Sexagesimal(1).division(Sexagesimal(59), 1) raises AttributeError
C4_DivisionRaises ==
  /\ call.f = "division" /\ call.n = 1
  /\ call.a = new_ints(Sexagesimal, <<1>>, FZero, 1)
  /\ call.b = new_ints(Sexagesimal, <<59>>, FZero, 1)
  /\ res = Raise("AttributeError")

\* C5: round(v, n) is a value with n fractional digits and no remainder, of
\* the sign of v, whose magnitude is that of v cut at position n plus one unit
\* of position n exactly when what lies beyond position n is at least half a
\* unit.
C5_RoundHalfAwayFromZero ==
  (call.f = "round" /\ Returned)
    => /\ IsValue(res)
       /\ Len(res.right) = call.n
       /\ res.remainder = FZero
       /\ float(res) = FMul(FInt(call.a.sign),
                            RoundedAt(call.a.base, FAbs(float(call.a)), call.n))

\* C5: round(Temporal((0,), (0, 20)), 1) is 0 ; 01 though 20/60 of a unit of
\* position 1 lies beyond it
C5_TemporalRoundsUp ==
  /\ call.f = "round" /\ call.n = 1
  /\ call.a = new(Temporal, <<0>>, <<0, 20>>, FZero, 1)
  /\ IsValue(res) /\ res.left = <<0>> /\ res.right = <<1>>

\* C6: registering a base with a radix below 2 fails, stores no base under
\* that name and mints or replaces no type.
C6_RegistrationValidated ==
  (call.f = "register" /\ Returned
   /\ \E i \in 1..Len(call.left \o call.right) : (call.left \o call.right)[i] < 2)
    => /\ IsError(res)
       /\ name_to_base = ImportedRegistry.name_to_base
       /\ module_types = ImportedRegistry.module_types

\* C6: RadixBase([1], [2], "sexagesimal") replaces the registered base and the
\* type Sexagesimal
C6_UnaryRadixRegistered ==
  /\ call.f = "register" /\ call.left = <<1>> /\ call.right = <<2>>
  /\ call.name = Sexagesimal.name
  /\ res.kind = "base"
  /\ name_to_base[call.name].left = <<1>>
  /\ module_types[Sexagesimal.type].left = <<1>>

\* C7: parsing the rendering of a value without remainder gives back a value
\* of the same sign, integer digits and fractional digits.
C7_StringRoundTrip ==
  (call.f = "from_string" /\ Returned)
    => /\ IsValue(res)
       /\ res.sign = call.a.sign
       /\ res.left = call.a.left
       /\ res.right = call.a.right

\* C7: the rendering "4r 29 ; " of Historical(4, 29) is refused by from_string
C7_HistoricalNotParsed ==
  /\ call.f = "from_string"
  /\ call.a = new_ints(Historical, <<4, 29>>, FZero, 1)
  /\ call.string = <<"4", "r", " ", "2", "9", " ", ";", " ">>
  /\ res = Raise("ValueError")

\* C8: from_float(x, s), for x the real value of a value with s fractional
\* digits, has a real value less than the weight of position s away from x,
\* and equal to x when x is an integer and s = 0.
C8_FloatRoundTrip ==
  (call.f = "from_float" /\ Returned)
    => /\ IsValue(res)
       /\ FLt(FAbs(FSub(float(res), call.x)), float_at_pos(call.base, call.n))
       /\ (call.n = 0 /\ call.x[2] = 1) => float(res) = call.x

\* C8: Historical.from_float(29, 0) is 2r 05, whose real value is 25
C8_HistoricalFromFloat ==
  /\ call.f = "from_float" /\ call.base = Historical
  /\ call.x = FInt(29) /\ call.n = 0
  /\ IsValue(res) /\ res.left = <<2, 5>> /\ float(res) = FInt(25)

\* C9: each ordering operator returns the comparison of the real values.
C9_OrderingByRealValue ==
  /\ (call.f = "gt" /\ Returned) => res = Bool(FLt(float(call.b), float(call.a)))
  /\ (call.f = "ge" /\ Returned) => res = Bool(FLe(float(call.b), float(call.a)))
  /\ (call.f = "lt" /\ Returned) => res = Bool(FLt(float(call.a), float(call.b)))
  /\ (call.f = "le" /\ Returned) => res = Bool(FLe(float(call.a), float(call.b)))

\* C9: Sexagesimal(0, sign=-1) >= Sexagesimal(0) is False though both have
\* the real value 0
C9_NegativeZeroNotGreaterOrEqual ==
  /\ call.f = "ge"
  /\ call.a = new_ints(Sexagesimal, <<0>>, FZero, -1)
  /\ call.b = new_ints(Sexagesimal, <<0>>, FZero, 1)
  /\ float(call.a) = float(call.b)
  /\ res = Bool(FALSE)

\* C10: addition, subtraction, multiplication and division of two values of
\* different bases each fail with TypeMismatch.
C10_MixedBasesRejected ==
  (call.f \in {"add", "sub", "mul", "division"} /\ Returned /\ ~SameBase)
    => res = Raise("TypeMismatch")

\* C10: Sexagesimal(1) + Historical(1) is the Sexagesimal value 2
C10_MixedAdditionConverts ==
  /\ call.f = "add"
  /\ call.a = new_ints(Sexagesimal, <<1>>, FZero, 1)
  /\ call.b = new_ints(Historical, <<1>>, FZero, 1)
  /\ IsValue(res) /\ res.base = Sexagesimal /\ res.left = <<2>>

\* the product of n factors x, multiplied from the left as x ** n is to
RECURSIVE Product(_, _)
Product(x, n) == IF n <= 1 THEN x ELSE mul(Product(x, n - 1), x)

\* C11: x ** n for n >= 1 is the value of x multiplied by itself n times
\* (x ** 1 is x), and x ** 0 is one(0).
C11_PowerIsRepeatedProduct ==
  (call.f = "pow" /\ Returned /\ call.n >= 0)
    => res = (IF call.n = 0 THEN one(call.a.base, 0) ELSE Product(call.a, call.n))

\* C11: Sexagesimal(1) ** 1 ends without returning anything
C11_PowerReturnsNothing ==
  /\ call.f = "pow" /\ call.n = 1
  /\ call.a = new_ints(Sexagesimal, <<1>>, FZero, 1)
  /\ res = PyNone

\* C12: the constructor called with an empty argument list fails with
\* ValueError and returns no value.
C12_EmptyArgumentsRejected ==
  (call.f = "new_ints" /\ Returned /\ call.left = <<>>) => res = Raise("ValueError")

\* C12: Historical() is the value 0
C12_EmptyArgumentsGiveZero ==
  /\ call.f = "new_ints" /\ call.base = Historical
  /\ call.left = <<>> /\ call.sign = 1
  /\ IsValue(res) /\ res.left = <<0>> /\ res.right = <<>>

\* C13: two constructor calls of one base that produce the same sign, digits
\* and remainder return the identical object, whatever the shape of their
\* arguments.
C13_SameValueSameObject ==
  \A i, j \in 1..Len(held) :
    (held[i].by = "new" /\ held[j].by = "new" /\ held[i].value = held[j].value)
      => held[i].id = held[j].id

\* C13: Sexagesimal(6) and Sexagesimal((6,), ()) are two objects
C13_TwoObjectsOfOneValue ==
  \E i, j \in 1..Len(held) :
    /\ held[i].by = "new" /\ held[j].by = "new"
    /\ held[i].value = new_ints(Sexagesimal, <<6>>, FZero, 1)
    /\ held[j].value = held[i].value
    /\ held[i].id # held[j].id

\* C14: no operation changes the sign, digits or remainder of a value that
\* exists already.
C14_ValuesNeverChange ==
  \A i \in 1..Len(held) : heap[held[i].id] = held[i].value

\* C14: after the failed division of Sexagesimal(6) by itself the object
\* that Sexagesimal(0) returned has the digits of 6
C14_ZeroOverwrittenByDivision ==
  /\ res = Raise("AttributeError")
  /\ \E i \in 1..Len(held) :
       /\ held[i].value = new_ints(Sexagesimal, <<0>>, FZero, 1)
       /\ heap[held[i].id] = new_ints(Sexagesimal, <<6>>, FZero, 1)

\* v has no digit other than 0 and no remainder
IsZeroValue(v) ==
  /\ \A i \in 1..Len(AllDigits(v)) : AllDigits(v)[i] = 0
  /\ v.remainder = FZero

\* C15: every value returned by construction, negation, abs, addition,
\* subtraction, multiplication or rounding whose digits are all zero and whose
\* remainder is 0 has the sign +1.
C15_ZeroHasPositiveSign ==
  (call.f \in {"new", "new_ints", "neg", "abs", "add", "sub", "mul", "round"}
   /\ IsValue(res) /\ IsZeroValue(res))
    => res.sign = 1

\* C15: Sexagesimal(1) + (-Sexagesimal(1)) is the zero of sign -1
C15_SumWithOppositeIsNegativeZero ==
  /\ call.f = "add"
  /\ call.a = new_ints(Sexagesimal, <<1>>, FZero, 1)
  /\ call.b = neg(call.a)
  /\ IsValue(res) /\ IsZeroValue(res) /\ res.sign = -1

\* remainder r of v satisfies 0 <= r < 1
RemainderInUnit(v) == FLe(FZero, v.remainder) /\ FLt(v.remainder, FInt(1))

\* C16: every value returned by the constructor, from_float, resize, addition
\* or subtraction has a remainder r with 0 <= r < 1, the remainder of every
\* operand being in [0, 1).
C16_RemainderInUnit ==
  (call.f \in {"new", "new_ints", "from_float", "resize", "add", "sub"}
   /\ IsValue(res)
   /\ RemainderInUnit(call) /\ RemainderInUnit(call.a) /\ RemainderInUnit(call.b))
    => RemainderInUnit(res)

\* C16: Sexagesimal((1,), (), remainder=0.25) - Sexagesimal((0,), (),
\* remainder=0.5) has the remainder -0.25
C16_NegativeRemainder ==
  /\ call.f = "sub"
  /\ call.a = new(Sexagesimal, <<1>>, <<>>, <<1, 4>>, 1)
  /\ call.b = new(Sexagesimal, <<0>>, <<>>, <<1, 2>>, 1)
  /\ IsValue(res) /\ res.left = <<1>> /\ res.remainder = <<-1, 4>>

\* C17: the radix of position p of a registered base is right[p-1] for p > 0
\* and left[-p] for p <= 0, both lists repeating; the radix of position 0 is
\* the first element of the integer radix list.
C17_RadixOfPosition ==
  (call.f = "getitem" /\ Returned)
    => res = IntResult(IF call.n > 0 THEN LoopingAt(call.base.right, call.n - 1)
                 ELSE LoopingAt(call.base.left, -call.n))

\* C17: Historical.base[0] is 30, the last element of the list [10, 12, 30]
C17_HistoricalRadixOfPositionZero ==
  /\ call.f = "getitem" /\ call.base = Historical /\ call.n = 0
  /\ Historical.left[1] = 10
  /\ res = IntResult(30)

\* C18: v.resize(n) has n fractional digits, the sign and integer digits of
\* v and the real value of v, and when n is below the number of fractional
\* digits of v, resizing the result back gives the fractional digits of v.
C18_ResizeKeepsValue ==
  (call.f = "resize" /\ Returned)
    => /\ IsValue(res)
       /\ Len(res.right) = call.n
       /\ res.sign = call.a.sign
       /\ res.left = call.a.left
       /\ float(res) = float(call.a)
       /\ call.n < Len(call.a.right)
            => /\ IsValue(resize(res, Len(call.a.right)))
               /\ resize(res, Len(call.a.right)).right = call.a.right

\* C18: Temporal((1,), (8, 20)).resize(1) has the remainder 20/24 where the
\* dropped digit is worth 20/60 of a unit of position 1
C18_TemporalResize ==
  /\ call.f = "resize" /\ call.n = 1
  /\ call.a = new(Temporal, <<1>>, <<8, 20>>, FZero, 1)
  /\ IsValue(res) /\ res.right = <<8>> /\ res.remainder = <<5, 6>>
  /\ float(res) # float(call.a)

\* C19: every value returned by a constructor or an operation has at least
\* one integer digit, and its first integer digit is zero only when the
\* integer part is the single digit 0.
C19_IntegerPartTrimmed ==
  (Returned /\ IsValue(res))
    => /\ Len(res.left) >= 1
       /\ res.left[1] = 0 => res.left = <<0>>

\* C19: the constructor given the integer digits (0, 1) returns a value whose
\* integer digits are (1)
C19_LeadingZeroTrimmed ==
  /\ call.f = "new" /\ call.left = <<0, 1>>
  /\ IsValue(res) /\ res.left = <<1>>

====
